---- MODULE Spec2Model ----
(***************************************************************************)
(* Model of the Aptos gas price dashboard (src/src/App.tsx) and of its     *)
(* first revision (src/unnamed/part_001).                                  *)
(*                                                                         *)
(* Strings are tuples of one-character strings, so that parseInt is        *)
(* modelled by what it does to the characters.  A transaction is a         *)
(* function from the names of the fields it has to their values, so that   *)
(* the `in` operator is membership in DOMAIN.  A value that may be         *)
(* undefined is a record with a `defined` flag.                            *)
(***************************************************************************)
EXTENDS Integers, Sequences, FiniteSets, TLC

\* ------------------------------------------------------------------ bounds
\* longest transaction list drawn for the reducer
MaxTxs == 3
\* longest transaction list a fetch of the dashboard returns
MaxResp == 2

\* ------------------------------------------------------- program constants
\* initial value of the running min of the reducer
MinSentinel == 1000000000
\* initial value of the running max of the reducer
MaxInitial == 0

\* --------------------------------------------------------------- parseInt
DigitChars == <<"0", "1", "2", "3", "4", "5", "6", "7", "8", "9">>

IsDigit(c) == \E i \in 1..10 : DigitChars[i] = c

DigitVal(c) == (CHOOSE i \in 1..10 : DigitChars[i] = c) - 1

IsWhite(c) == c \in {" ", "\t", "\n"}

RECURSIVE SkipWhite(_)
SkipWhite(s) ==
  IF Len(s) > 0 /\ IsWhite(s[1]) THEN SkipWhite(Tail(s)) ELSE s

RECURSIVE DigitPrefixLen(_)
DigitPrefixLen(s) ==
  IF Len(s) > 0 /\ IsDigit(s[1]) THEN 1 + DigitPrefixLen(Tail(s)) ELSE 0

RECURSIVE DigitsValue(_, _)
DigitsValue(s, n) ==
  IF n = 0 THEN 0 ELSE DigitsValue(s, n - 1) * 10 + DigitVal(s[n])

NaN == [nan |-> TRUE, val |-> 0]

\* parseInt(str, 10): leading white space is skipped, one sign is read, the
\* longest prefix of decimal digits is the value; NaN when it is empty
parseInt(str) ==
  LET t == SkipWhite(str)
      signed == Len(t) > 0 /\ t[1] \in {"+", "-"}
      sign == IF Len(t) > 0 /\ t[1] = "-" THEN -1 ELSE 1
      u == IF signed THEN Tail(t) ELSE t
      n == DigitPrefixLen(u)
  IN IF n = 0 THEN NaN ELSE [nan |-> FALSE, val |-> sign * DigitsValue(u, n)]

isNaN(x) == x.nan

\* Math.max, Math.min
MathMax(a, b) == IF a >= b THEN a ELSE b

MathMin(a, b) == IF a <= b THEN a ELSE b

\* Math.round(num / den), den > 0: the nearest integer, a half rounds up
MathRound(num, den) ==
  LET q == num \div den
      r == num % den
  IN IF 2 * r >= den THEN q + 1 ELSE q

\* ---------------------------------------------------- the reduce callback
InitialAcc == [total |-> 0, count |-> 0, max |-> MaxInitial, min |-> MinSentinel]

HasFields(tx) == "gas_unit_price" \in DOMAIN tx /\ "gas_used" \in DOMAIN tx

\* the callback without its isNaN test: NaN is counted as a price of 0
ReducerCountsNaN(acc, tx) ==
  IF HasFields(tx)
  THEN LET txGasUnitPrice == parseInt(tx["gas_unit_price"])
       IN [total |-> acc.total + txGasUnitPrice.val,
           count |-> acc.count + 1,
           max |-> MathMax(acc.max, txGasUnitPrice.val),
           min |-> MathMin(acc.min, txGasUnitPrice.val)]
  ELSE acc

Reducer(acc, tx) ==
  IF HasFields(tx)
  THEN LET txGasUnitPrice == parseInt(tx["gas_unit_price"])
       IN IF isNaN(txGasUnitPrice)
          THEN acc
          ELSE [total |-> acc.total + txGasUnitPrice.val,
                count |-> acc.count + 1,
                max |-> MathMax(acc.max, txGasUnitPrice.val),
                min |-> MathMin(acc.min, txGasUnitPrice.val)]
  ELSE acc

RECURSIVE Reduce(_, _)
Reduce(list, n) ==
  IF n = 0 THEN InitialAcc ELSE Reducer(Reduce(list, n - 1), list[n])

\* ------------------------------------------------------------- the sample
Undefined == [defined |-> FALSE, fast |-> 0, standard |-> 0, slow |-> 0]

\* the sample with fast and slow taken from the wrong accumulators
SampleOfSwapped(acc) ==
  IF acc.count = 0
  THEN Undefined
  ELSE [defined |-> TRUE,
        fast |-> acc.min,
        standard |-> MathRound(acc.total, acc.count),
        slow |-> acc.max]

SampleOf(acc) ==
  IF acc.count = 0
  THEN Undefined
  ELSE [defined |-> TRUE,
        fast |-> acc.max,
        standard |-> MathRound(acc.total, acc.count),
        slow |-> acc.min]

NoData == [defined |-> FALSE, value |-> <<>>]

SomeData(v) == [defined |-> TRUE, value |-> v]

\* a query of react-query: the data of the last successful fetch and the
\* status of the last fetch
Query(d, st) == [data |-> d, status |-> st]

\* the hook that drops the sample when the last fetch has failed
useAptosTransactionsGasPriceOnSuccess(query) ==
  IF query.data.defined /\ query.status = "success"
  THEN SampleOf(Reduce(query.data.value, Len(query.data.value)))
  ELSE Undefined

\* the value the hook returns: the sample of query.data, every render
useAptosTransactionsGasPrice(query) ==
  IF query.data.defined
  THEN SampleOf(Reduce(query.data.value, Len(query.data.value)))
  ELSE Undefined

\* ----------------------------------------------------------------- GasPrice
LoadingText == [text |-> "loading ...", fast |-> 0, standard |-> 0, slow |-> 0]

\* what GasPrice renders for props.data
GasPrice(propsData) ==
  IF ~propsData.defined
  THEN LoadingText
  ELSE [text |-> "estimated price (Octa)",
        fast |-> propsData.fast,
        standard |-> propsData.standard,
        slow |-> propsData.slow]

\* -------------------------------------------------------------------- Chart
\* the refs of the Chart component, the calls made on the chart widget so
\* far, and the calls of the last run of the effect
NoChart ==
  [containerRef |-> TRUE, chartRef |-> FALSE, dataRef |-> FALSE,
   baseValue |-> 0, created |-> 0, series |-> 0, setData |-> 0,
   calls |-> <<>>]

\* the effect without its test of a zero value
ChartNoZeroTest(c, value) ==
  IF ~c.containerRef
  THEN [c EXCEPT !.calls = <<>>]
  ELSE IF ~c.chartRef
  THEN [c EXCEPT !.chartRef = TRUE,
                 !.created = @ + 1,
                 !.dataRef = TRUE,
                 !.series = IF c.dataRef THEN @ ELSE @ + 1,
                 !.baseValue = IF c.dataRef THEN @ ELSE value,
                 !.setData = @ + 1,
                 !.calls = (IF c.dataRef
                            THEN <<"createChart", "setData">>
                            ELSE <<"createChart", "addBaselineSeries", "setData">>)
                           \o <<"update">>]
  ELSE IF c.dataRef
  THEN [c EXCEPT !.calls = <<"update">>]
  ELSE [c EXCEPT !.calls = <<>>]

\* the effect that never stores the chart it creates in chartRef
ChartForgetsRef(c, value) ==
  IF ~c.containerRef \/ value = 0
  THEN [c EXCEPT !.calls = <<>>]
  ELSE [c EXCEPT !.created = @ + 1,
                 !.dataRef = TRUE,
                 !.series = IF c.dataRef THEN @ ELSE @ + 1,
                 !.baseValue = IF c.dataRef THEN @ ELSE value,
                 !.setData = @ + 1,
                 !.calls = (IF c.dataRef
                            THEN <<"createChart", "setData">>
                            ELSE <<"createChart", "addBaselineSeries", "setData">>)
                           \o <<"update">>]

\* the effect of Chart, run after a render with props.updates.value = value
Chart(c, value) ==
  IF ~c.containerRef
  THEN [c EXCEPT !.calls = <<>>]
  ELSE IF value = 0
  THEN [c EXCEPT !.calls = <<>>]
  ELSE IF ~c.chartRef
  THEN [c EXCEPT !.chartRef = TRUE,
                 !.created = @ + 1,
                 !.dataRef = TRUE,
                 !.series = IF c.dataRef THEN @ ELSE @ + 1,
                 !.baseValue = IF c.dataRef THEN @ ELSE value,
                 !.setData = @ + 1,
                 !.calls = (IF c.dataRef
                            THEN <<"createChart", "setData">>
                            ELSE <<"createChart", "addBaselineSeries", "setData">>)
                           \o <<"update">>]
  ELSE IF c.dataRef
  THEN [c EXCEPT !.calls = <<"update">>]
  ELSE [c EXCEPT !.calls = <<>>]

\* ----------------------------------------------------------- PriceDashboard
\* the option enabled that is never passed: useQuery's default
EnabledAlways(paused) == TRUE

\* the option enabled passed to the hook
Enabled(paused) == ~paused

\* aptosGasPrice?.standard ?? 0
UpdatesValue(aptosGasPrice) ==
  IF aptosGasPrice.defined THEN aptosGasPrice.standard ELSE 0

\* ---------------------------------------------------------------- useQuery
\* The hook hands the key, the fetch function and the options refetchInterval,
\* refetchOnMount and enabled to useQuery of react-query.  The library keeps
\* one query per key: query.data is the answer of the last fetch that
\* resolved, a fetch that fails leaves it, a fetch for a key that has one
\* pending joins the pending one, the interval timer exists only while the
\* query is enabled, and a query that becomes enabled fetches.
\* a fetch is started although one is pending: the pending one goes stale
StartFetchNoDedupe(pending) ==
  IF pending = {} THEN {"latest"} ELSE {"latest", "stale"}

\* a fetch of the key is started; a pending fetch of the same key is reused
StartFetch(pending) == IF pending = {} THEN {"latest"} ELSE pending

\* the status when a fetch starts: loading until data has arrived
StatusOnFetch(d, st) == IF d.defined THEN st ELSE "loading"

\* ------------------------------------------------------ the direct estimate
NoEstimate == [defined |-> FALSE, value |-> <<>>]

\* x[field] ?? 0
OrZero(x, field) == IF field \in DOMAIN x THEN x[field] ELSE 0

\* the hook with the two optional fields exchanged
useAptosGasPriceSwapped(queryData) ==
  IF queryData.defined
  THEN [defined |-> TRUE,
        fast |-> OrZero(queryData.value, "deprioritized_gas_estimate"),
        standard |-> queryData.value["gas_estimate"],
        slow |-> OrZero(queryData.value, "prioritized_gas_estimate")]
  ELSE Undefined

\* the hook of the first revision
useAptosGasPrice(queryData) ==
  IF queryData.defined
  THEN [defined |-> TRUE,
        fast |-> OrZero(queryData.value, "prioritized_gas_estimate"),
        standard |-> queryData.value["gas_estimate"],
        slow |-> OrZero(queryData.value, "deprioritized_gas_estimate")]
  ELSE Undefined

\* the hook of the dashboard's file, the same mapping
useAptosEstimatedGasPrice(queryData) ==
  IF queryData.defined
  THEN [defined |-> TRUE,
        fast |-> OrZero(queryData.value, "prioritized_gas_estimate"),
        standard |-> queryData.value["gas_estimate"],
        slow |-> OrZero(queryData.value, "deprioritized_gas_estimate")]
  ELSE Undefined

\* GasPrice of the first revision: the JSON of the hook's value, or loading
GasPriceOfEstimate(gasPrice) ==
  IF gasPrice.defined
  THEN [text |-> "json", fast |-> gasPrice.fast,
        standard |-> gasPrice.standard, slow |-> gasPrice.slow]
  ELSE LoadingText

\* ------------------------------------------------------------- the inputs
\* the estimates a node answers with
GasValues == {0, 80, 100, 150}

OptionalFields == {"prioritized_gas_estimate", "deprioritized_gas_estimate"}

EstResponses ==
  UNION {[{"gas_estimate"} \cup opt -> GasValues] : opt \in SUBSET OptionalFields}


Str10 == <<"1", "0">>
Str11 == <<"1", "1">>
Str20 == <<"2", "0">>
StrAbc == <<"a", "b", "c">>
Str12abc == <<"1", "2", "a", "b", "c">>
StrNeg5 == <<"-", "5">>
StrZero == <<"0">>
StrBig == <<"2", "0", "0", "0", "0", "0", "0", "0", "0", "0">>

Tx(price, used) == [gas_unit_price |-> price, gas_used |-> used]

TxNoUsed == [gas_unit_price |-> Str10]
TxNoPrice == [gas_used |-> <<"0">>]
TxBig == Tx(StrBig, <<"1">>)

\* transactions the reducer is run over
TxPool ==
  {Tx(Str10, <<"5">>), Tx(Str20, <<"3">>), Tx(Str11, <<"1">>),
   Tx(StrAbc, <<"1">>), Tx(Str12abc, <<"1">>), Tx(StrNeg5, <<"1">>),
   Tx(StrZero, <<"1">>), TxBig, TxNoUsed, TxNoPrice}

SeqsUpTo(S, n) == UNION {[1..k -> S] : k \in 0..n}

\* at most one price beyond the sentinel in a list: a sum of two of them
\* does not fit the integers of the model checker
TxLists ==
  {l \in SeqsUpTo(TxPool, MaxTxs) :
     Cardinality({i \in DOMAIN l : l[i] = TxBig}) <= 1}

\* transactions a fetch of the dashboard returns
RespPool ==
  {Tx(Str10, <<"5">>), Tx(Str20, <<"3">>), Tx(StrAbc, <<"1">>),
   Tx(StrZero, <<"1">>)}

Responses == SeqsUpTo(RespPool, MaxResp)

\* ------------------------------------------------------------------ state
VARIABLES
  txs, idx, acc, sample,      \* the reduce of one transaction list
  isPaused,                   \* PriceDashboard's state
  data, status,               \* the query: query.data and query.status
  pending,                    \* the fetches of the query that are in flight
  applied,                    \* the fetch whose response query.data holds
  rendered,                   \* what GasPrice shows
  updates,                    \* props.updates.value of the last render
  chart,                      \* the refs of Chart and the widget calls
  estData, estPending,        \* the query of the gas estimate
  estimated,                  \* what useAptosEstimatedGasPrice returns
  estShown                    \* what GasPrice of the first revision shows

rvars == <<txs, idx, acc, sample>>

dvars == <<isPaused, data, status, pending, applied, rendered, updates, chart>>

evars == <<estData, estPending, estimated, estShown>>

vars == <<rvars, dvars, evars>>

\* ----------------------------------------------- the reducer, step by step
ReduceIdle ==
  /\ txs = <<>>
  /\ idx = 0
  /\ acc = InitialAcc
  /\ sample = Undefined

\* the dashboard after it is mounted: no data, so the query fetches
Mounted ==
  /\ isPaused = FALSE
  /\ data = NoData
  /\ status = "loading"
  /\ pending = {"latest"}
  /\ applied = "none"
  /\ rendered = LoadingText
  /\ updates = 0
  /\ chart = NoChart

\* the first revision after it is mounted
EstMounted ==
  /\ estData = NoEstimate
  /\ estPending = TRUE
  /\ estimated = Undefined
  /\ estShown = LoadingText

InitSample ==
  /\ txs \in TxLists
  /\ idx = 0
  /\ acc = InitialAcc
  /\ sample = Undefined
  /\ Mounted
  /\ EstMounted

\* one call of the reduce callback
ReduceStep ==
  /\ idx < Len(txs)
  /\ idx' = idx + 1
  /\ acc' = Reducer(acc, txs[idx + 1])
  /\ UNCHANGED <<txs, sample, dvars, evars>>

\* the list is consumed: the hook returns
ReduceReturn ==
  /\ idx = Len(txs)
  /\ sample' = SampleOf(acc)
  /\ idx' = idx + 1
  /\ UNCHANGED <<txs, acc, dvars, evars>>

NextSample == ReduceStep \/ ReduceReturn

SpecSample == InitSample /\ [][NextSample]_vars

\* ------------------------------------------------------------ the dashboard
\* PriceDashboard renders with the query q: GasPrice shows the sample and
\* the effect of Chart runs with the new props.updates
Render(q) ==
  LET aptosGasPrice == useAptosTransactionsGasPrice(q)
  IN /\ rendered' = GasPrice(aptosGasPrice)
     /\ updates' = UpdatesValue(aptosGasPrice)
     /\ chart' = Chart(chart, UpdatesValue(aptosGasPrice))

\* no render: nothing is shown anew and no effect runs
NoRender ==
  /\ UNCHANGED <<rendered, updates>>
  /\ chart' = [chart EXCEPT !.calls = <<>>]

\* a change of the query that leaves query.data as it is renders the
\* component or not, depending on which properties of the query the
\* observer notifies for
MayRender(q) == Render(q) \/ NoRender

Init == Mounted /\ ReduceIdle /\ EstMounted

\* the refetchInterval timer of the query fires
Tick ==
  /\ Enabled(isPaused)
  /\ pending' = StartFetch(pending)
  /\ status' = StatusOnFetch(data, status)
  /\ UNCHANGED <<isPaused, data, applied, rvars, evars>>
  /\ IF pending' = pending /\ status' = status
     THEN NoRender
     ELSE MayRender(Query(data, status'))

\* a pending fetch resolves with a transaction list
FetchOk ==
  \E f \in pending, list \in Responses :
    /\ pending' = pending \ {f}
    /\ data' = SomeData(list)
    /\ status' = "success"
    /\ applied' = f
    /\ UNCHANGED <<isPaused, rvars, evars>>
    /\ IF data' # data
       THEN Render(Query(data', status'))
       ELSE MayRender(Query(data', status'))

\* a pending fetch fails: query.data keeps the last list
FetchFail ==
  \E f \in pending :
    /\ pending' = pending \ {f}
    /\ status' = "error"
    /\ UNCHANGED <<isPaused, data, applied, rvars, evars>>
    /\ MayRender(Query(data, status'))

\* the pause button is clicked; a query that becomes enabled fetches
Toggle ==
  /\ isPaused' = ~isPaused
  /\ IF ~Enabled(isPaused) /\ Enabled(isPaused')
     THEN /\ pending' = StartFetch(pending)
          /\ status' = StatusOnFetch(data, status)
     ELSE UNCHANGED <<pending, status>>
  /\ UNCHANGED <<data, applied, rvars, evars>>
  /\ Render(Query(data, status'))

Next == Tick \/ FetchOk \/ FetchFail \/ Toggle

Spec == Init /\ [][Next]_vars

\* ------------------------------------------------------ the first revision
\* the refetchInterval timer fires; a pending fetch is reused
EstTick ==
  /\ ~estPending
  /\ estPending' = TRUE
  /\ UNCHANGED <<estData, estimated, estShown, rvars, dvars>>

\* the fetch resolves with the node's estimate
EstFetchOk ==
  \E r \in EstResponses :
    /\ estPending
    /\ estPending' = FALSE
    /\ estData' = [defined |-> TRUE, value |-> r]
    /\ estimated' = useAptosEstimatedGasPrice(estData')
    /\ estShown' = GasPriceOfEstimate(useAptosGasPrice(estData'))
    /\ UNCHANGED <<rvars, dvars>>

\* the fetch fails: query.data keeps the last estimate
EstFetchFail ==
  /\ estPending
  /\ estPending' = FALSE
  /\ UNCHANGED <<estData, estimated, estShown, rvars, dvars>>

NextEstimate == EstTick \/ EstFetchOk \/ EstFetchFail

SpecEstimate == Init /\ [][NextEstimate]_vars

Returned == idx = Len(txs) + 1

\* ---------------------------------------- the sample, stated independently
RECURSIVE SumOver(_, _)
SumOver(S, l) ==
  IF S = {} THEN 0
  ELSE LET i == CHOOSE j \in S : TRUE
       IN parseInt(l[i]["gas_unit_price"]).val + SumOver(S \ {i}, l)

PriceAt(l, i) == parseInt(l[i]["gas_unit_price"]).val

MaxOver(S, l) == CHOOSE m \in {PriceAt(l, i) : i \in S} :
                   \A i \in S : PriceAt(l, i) <= m

MinOver(S, l) == CHOOSE m \in {PriceAt(l, i) : i \in S} :
                   \A i \in S : PriceAt(l, i) >= m

\* m is sum / n rounded to the nearest integer, a half rounded up
IsRoundedMean(m, sum, n) ==
  /\ 2 * (sum - n * m) >= -n
  /\ 2 * (sum - n * m) < n

\* the whole string is a decimal integer
IsNumeric(s) ==
  LET u == IF Len(s) > 0 /\ s[1] \in {"+", "-"} THEN Tail(s) ELSE s
  IN Len(u) > 0 /\ \A i \in 1..Len(u) : IsDigit(u[i])

\* the string starts, after white space and a sign, with a decimal digit
StartsWithInteger(s) ==
  LET t == SkipWhite(s)
      u == IF Len(t) > 0 /\ t[1] \in {"+", "-"} THEN Tail(t) ELSE t
  IN Len(u) > 0 /\ IsDigit(u[1])

\* entries with a numeric gas_unit_price
NumericIdx(l) ==
  {i \in DOMAIN l : "gas_unit_price" \in DOMAIN l[i]
                      /\ IsNumeric(l[i]["gas_unit_price"])}

\* entries with both fields whose gas_unit_price parseInt reads a number from
CountedIdx(l) ==
  {i \in DOMAIN l : /\ "gas_unit_price" \in DOMAIN l[i]
                     /\ "gas_used" \in DOMAIN l[i]
                     /\ StartsWithInteger(l[i]["gas_unit_price"])}

\* C1 as stated: for every list with at least one entry having a numeric
\* gas_unit_price the sample is the rounded mean, the maximum and the minimum
\* of the numeric prices.
C1_AsStated ==
  (Returned /\ NumericIdx(txs) # {}) =>
     /\ sample.defined
     /\ IsRoundedMean(sample.standard, SumOver(NumericIdx(txs), txs),
                      Cardinality(NumericIdx(txs)))
     /\ sample.fast = MaxOver(NumericIdx(txs), txs)
     /\ sample.slow = MinOver(NumericIdx(txs), txs)

\* C1 amended: for every list with at least one entry that has both
\* gas_unit_price and gas_used and whose gas_unit_price starts with a decimal
\* integer, standard is the rounded mean of the parsed prices of those
\* entries, fast is the larger of 0 and their maximum, slow is the smaller of
\* 1,000,000,000 and their minimum; every other entry is left out.
C1_SampleOfCounted ==
  (Returned /\ CountedIdx(txs) # {}) =>
     /\ sample.defined
     /\ IsRoundedMean(sample.standard, SumOver(CountedIdx(txs), txs),
                      Cardinality(CountedIdx(txs)))
     /\ sample.fast = MathMax(0, MaxOver(CountedIdx(txs), txs))
     /\ sample.slow = MathMin(1000000000, MinOver(CountedIdx(txs), txs))

\* the example of the claim: "10", "20", "abc" give 15, 20, 10
C1_Witness ==
  /\ Returned
  /\ txs = <<Tx(Str10, <<"5">>), Tx(Str20, <<"3">>), Tx(StrAbc, <<"1">>)>>
  /\ sample = [defined |-> TRUE, fast |-> 20, standard |-> 15, slow |-> 10]

\* C10: every sample the transaction strategy produces has
\* slow <= standard <= fast, also for prices beyond the sentinel or below 0.
C10_Ordered ==
  (Returned /\ sample.defined) =>
     (sample.slow <= sample.standard /\ sample.standard <= sample.fast)

\* a list with a price beyond the sentinel and a negative price was reduced
C10_Witness ==
  /\ Returned
  /\ sample.defined
  /\ \E i \in DOMAIN txs : txs[i] = TxBig
  /\ \E i \in DOMAIN txs : txs[i] = Tx(StrNeg5, <<"1">>)
  /\ sample.slow < 0
  /\ sample.fast > MinSentinel

\* ------------------------------------------------- claims on the dashboard
Loading == rendered = LoadingText

\* a pending fetch resolves in this step with a list that counts no entry
ResolvesEmpty ==
  /\ pending # {} /\ pending' = pending \ {applied'}
  /\ status' = "success"
  /\ data'.defined /\ CountedIdx(data'.value) = {}

\* a pending fetch fails in this step
Fails == pending # {} /\ pending' # pending /\ status' = "error"

\* a fetch is started in this step
Starts == pending = {} /\ pending' # {}

\* the timer of the query fires in this state, and its fetch is a new one
TickStartsFetch == Enabled(isPaused) /\ StartFetch(pending) # pending

\* the widget state of the chart, the calls of the last effect left out
Widget == <<chart.chartRef, chart.dataRef, chart.baseValue,
            chart.created, chart.series, chart.setData>>

\* C2 as stated: once a sample is rendered, a fetch that resolves with zero
\* valid entries leaves the rendered price text as it is.
C2_AsStated == [][(~Loading /\ ResolvesEmpty) => rendered' = rendered]_vars

\* C3: while paused no fetch is started and the timer starts none, pausing
\* leaves a pending fetch in flight, resuming starts a fetch at once and has
\* the timer start the following ones, and no toggle changes the sample that
\* is displayed.
C3_PauseStopsFetching ==
  [][/\ (isPaused /\ isPaused') => ~Starts
     /\ (~isPaused /\ isPaused') => pending' = pending
     /\ (isPaused /\ ~isPaused') => pending' # {}
     /\ (isPaused' # isPaused) => rendered' = rendered
     /\ isPaused' => ~TickStartsFetch'
     /\ (~isPaused' /\ pending' = {}) => TickStartsFetch']_vars

\* paused with a sample on display and nothing in flight, the fetch that was
\* pending at the pause having resolved
C3_Witness ==
  /\ isPaused /\ ~Loading /\ pending = {} /\ applied = "latest"

\* C4: a fetch that fails leaves query.data and the rendered sample (or the
\* loading placeholder) as they are, and unless the dashboard is paused the
\* next tick of the timer starts a fetch.
C4_FailureSwallowed ==
  [][Fails => /\ rendered' = rendered
              /\ data' = data
              /\ ~isPaused' => TickStartsFetch']_vars

\* a fetch has failed after a sample was displayed
C4_Witness == status = "error" /\ ~Loading /\ pending = {} /\ ~isPaused

\* C5: a render whose props.updates.value is 0 leaves the chart as it is and
\* makes no call on the widget.
C5_ZeroSkipped ==
  [][updates' = 0 => (Widget' = Widget /\ chart'.calls = <<>>)]_vars

\* the chart exists and an update of value 0 has come after it
C5_Witness == chart.chartRef /\ updates = 0

\* C7 as stated: Loading -> Displaying <-> Paused and nothing else: paused is
\* entered only while a sample is displayed and always has a sample to
\* display, and once a sample has been shown the placeholder never comes back.
C7_AsStated ==
  /\ [](isPaused => ~Loading)
  /\ [][(~isPaused /\ isPaused') => ~Loading]_vars
  /\ [][~Loading => ~Loading']_vars

\* C8: the chart and its series are created at most once, on the first
\* non-zero value, which is the baseline; later non-zero values only update.
C8_ChartOnce ==
  /\ [](chart.created <= 1 /\ chart.series <= 1 /\ chart.setData <= 1)
  /\ [](updates # 0 => chart.chartRef)
  /\ [](chart.chartRef <=> chart.created = 1)
  /\ [][/\ (~chart.chartRef /\ chart'.chartRef) =>
             /\ updates' # 0
             /\ chart'.baseValue = updates'
             /\ chart'.calls =
                  <<"createChart", "addBaselineSeries", "setData", "update">>
        /\ chart.chartRef =>
             /\ Widget' = Widget
             /\ chart'.calls \in {<<>>, <<"update">>}]_vars

\* a later non-zero value, other than the baseline, went through update
C8_Witness ==
  /\ chart.chartRef /\ chart.calls = <<"update">>
  /\ updates # 0 /\ updates # chart.baseValue

ExpectedEstimate(r) ==
  [fast |-> IF "prioritized_gas_estimate" \in DOMAIN r
            THEN r["prioritized_gas_estimate"] ELSE 0,
   standard |-> r["gas_estimate"],
   slow |-> IF "deprioritized_gas_estimate" \in DOMAIN r
            THEN r["deprioritized_gas_estimate"] ELSE 0]

C6_DirectEstimate ==
  IF estData.defined
  THEN /\ estimated = [defined |-> TRUE] @@ ExpectedEstimate(estData.value)
       /\ estShown = [text |-> "json"] @@ ExpectedEstimate(estData.value)
  ELSE estimated = Undefined /\ estShown = LoadingText

\* the example of the claim, and an answer without the optional fields
C6_Witness ==
  /\ estData.defined
  /\ estData.value = [gas_estimate |-> 100, prioritized_gas_estimate |-> 150,
                      deprioritized_gas_estimate |-> 80]
  /\ estShown = [text |-> "json", fast |-> 150, standard |-> 100, slow |-> 80]

====
